---------------------------- MODULE Spec2Model ----------------------------
(***************************************************************************)
(* Pixel-adaptive convolution layers of Noiredd/caffe:                     *)
(*   CPPLayer    (dense,     kernel blob N x K*K x H x W)                  *)
(*   SepCPPLayer (separable, kernel blob N x 2K  x H x W)                  *)
(* One layer instance, its two bottom blobs and its top blob.  Blob        *)
(* buffers are flat, row-major arrays indexed from 0, as the code indexes  *)
(* them.  Dtype values are modelled by integers (exact arithmetic).        *)
(***************************************************************************)
EXTENDS Integers, Sequences, FiniteSets, TLC

\* ------------------------------------------------------------------ bounds
MaxNum == 2
MaxChan == 2
MaxDim == 2
MaxB == 9
\* The largest kernel size of the identity-centred kernel blobs.
MaxK == 5

\* Seeds of the deterministic fill patterns the caller writes into blobs.
Seeds == {0, 1}
\* Values an uninitialised int member may hold before LayerSetUp.
Garbage == {-1, 0, 6}

Kinds == {"CPP", "SepCPP"}

\* ----------------------------------------------------------------- helpers
Max(a, b) == IF a > b THEN a ELSE b

\* Blob::count(start): product of the shape's axes from start (0-based) on.
RECURSIVE Count(_, _)
Count(shape, start) ==
  IF start >= Len(shape) THEN 1
  ELSE shape[start + 1] * Count(shape, start + 1)

\* A buffer of n elements, all zero (a freshly allocated SyncedMemory).
Zeros(n) == [i \in 0..(n - 1) |-> 0]

\* The caller's fill: element i of the pattern with seed s, in -2..4.
PatVal(s, i) == ((i * i * (s + 1) + i + s) % 7) - 2
Fill(s, n) == [i \in 0..(n - 1) |-> PatVal(s, i)]

\* static_cast<int>(sqrt(static_cast<float>(B_input))) for B_input >= 0.
RECURSIVE SqrtFrom(_, _)
SqrtFrom(k, b) == IF (k + 1) * (k + 1) > b THEN k ELSE SqrtFrom(k + 1, b)
\* Fault variant: the float square root of a perfect square comes out just
\* below the integer and the cast truncates it.
IntSqrt_RoundedDown(b) == Max(SqrtFrom(0, b) - 1, 0)

IntSqrt(b) == SqrtFrom(0, b)

\* ------------------------------------------------------------------- state
VARIABLES
  kind,          \* which layer class the instance is
  kernel_, padding_, height_, width_, batch_num_, channels_,
  isSetUp,       \* LayerSetUp has run
  shaped,        \* the last Reshape succeeded on the blobs as they are now
  bottom0_shape, bottom1_shape, top_shape,
  img,           \* bottom[0] data
  img_diff,      \* bottom[0] diff
  ker,           \* bottom[1] data
  ker_diff,      \* bottom[1] diff
  out,           \* top[0] data
  top_diff,      \* top[0] diff
  lastOp,        \* the entry point that ran last
  err            \* "none", or the fatal error the last entry point ended in

scalars == <<kernel_, padding_, height_, width_, batch_num_, channels_>>
shapes == <<bottom0_shape, bottom1_shape, top_shape>>
buffers == <<img, img_diff, ker, ker_diff, out, top_diff>>
vars == <<kind, scalars, isSetUp, shaped, shapes, buffers, lastOp, err>>

\* The layer's members as one record, for the pure operators below.
Dims == [kernel |-> kernel_, padding |-> padding_, height |-> height_,
         width |-> width_, batch_num |-> batch_num_, channels |-> channels_]

Init ==
  /\ kind \in Kinds
  /\ \E g \in Garbage :
       /\ kernel_ = g /\ padding_ = g /\ height_ = g
       /\ width_ = g /\ batch_num_ = g /\ channels_ = g
  /\ isSetUp = FALSE
  /\ shaped = FALSE
  /\ bottom0_shape = <<>> /\ bottom1_shape = <<>> /\ top_shape = <<>>
  /\ img = Zeros(0) /\ img_diff = Zeros(0)
  /\ ker = Zeros(0) /\ ker_diff = Zeros(0)
  /\ out = Zeros(0) /\ top_diff = Zeros(0)
  /\ lastOp = "construct"
  /\ err = "none"

\* ------------------------------------------------------------- LayerSetUp
LayerSetUp ==
  /\ ~isSetUp
  /\ kernel_' = 0
  /\ padding_' = 0
  /\ height_' = 0
  /\ width_' = 0
  /\ batch_num_' = 0
  /\ channels_' = 0
  /\ isSetUp' = TRUE
  /\ shaped' = FALSE
  /\ lastOp' = "LayerSetUp"
  /\ err' = "none"
  /\ UNCHANGED <<kind, shapes, buffers>>

\* ------------------------------------------------------- the caller's blobs
\* Blob::shape(index), negative indices counting from the last axis.
ShapeAt(shape, index) ==
  IF index < 0 THEN shape[Len(shape) + index + 1] ELSE shape[index + 1]

\* No blobs have been handed to the layer yet.
Fresh == bottom0_shape = <<>>

\* The caller allocates an image blob n x c x h x w and a kernel blob
\* n x b x h x w and fills them (the fixtures' SetUp and PrepareKernelBlob,
\* with any channel count b).  The bottoms' diff buffers hold what an
\* earlier use of the memory left in them.
HandBottoms(n, c, h, w, b, s) ==
  /\ bottom0_shape' = <<n, c, h, w>>
  /\ bottom1_shape' = <<n, b, h, w>>
  /\ img' = Fill(s, n * c * h * w)
  /\ img_diff' = Fill(s + 2, n * c * h * w)
  /\ ker' = Fill(s + 1, n * b * h * w)
  /\ ker_diff' = Fill(s + 3, n * b * h * w)
  /\ shaped' = FALSE
  /\ lastOp' = "PrepareBlobs"
  /\ UNCHANGED <<kind, scalars, isSetUp, err>>

\* A new layer is handed its first blobs.  With seed 0 the top blob is new
\* and empty, as in the fixtures; with another seed the caller reuses a top
\* blob of the image's shape whose buffers hold the upstream gradient and
\* whatever an earlier use left in the data.
PrepareBlobs ==
  /\ isSetUp
  /\ err = "none"
  /\ Fresh
  /\ \E n \in 1..MaxNum, c \in 1..MaxChan, h \in 1..MaxDim, w \in 1..MaxDim,
        b \in 0..MaxB, s \in Seeds :
       /\ HandBottoms(n, c, h, w, b, s)
       /\ IF s = 0
            THEN /\ top_shape' = <<>>
                 /\ out' = Zeros(0)
                 /\ top_diff' = Zeros(0)
            ELSE /\ top_shape' = <<n, c, h, w>>
                 /\ out' = Fill(s + 5, n * c * h * w)
                 /\ top_diff' = Fill(s + 4, n * c * h * w)

\* A dense kernel blob n x K*K x h x w holding the identity-centred kernel
\* at every pixel: 1 at channel P*K + P, 0 at every other channel (for K = 1
\* the constant 1).
CentredKernels(n, K, h, w) ==
  [e \in 0..(n * K * K * h * w - 1) |->
     IF (e \div (h * w)) % (K * K) = ((K - 1) \div 2) * K + ((K - 1) \div 2)
     THEN 1 ELSE 0]

\* A new layer is handed an image and a kernel blob of identity-centred
\* kernels of an odd size K, with a new, empty top blob.
PrepareCentred ==
  /\ isSetUp
  /\ err = "none"
  /\ Fresh
  /\ \E n \in 1..MaxNum, c \in 1..MaxChan, h \in 1..MaxDim, w \in 1..MaxDim,
        K \in { K \in 1..MaxK : K % 2 = 1 }, s \in Seeds :
       /\ bottom0_shape' = <<n, c, h, w>>
       /\ bottom1_shape' = <<n, K * K, h, w>>
       /\ img' = Fill(s, n * c * h * w)
       /\ img_diff' = Fill(s + 2, n * c * h * w)
       /\ ker' = CentredKernels(n, K, h, w)
       /\ ker_diff' = Fill(s + 3, n * K * K * h * w)
       /\ top_shape' = <<>>
       /\ out' = Zeros(0)
       /\ top_diff' = Zeros(0)
       /\ shaped' = FALSE
       /\ lastOp' = "PrepareBlobs"
       /\ UNCHANGED <<kind, scalars, isSetUp, err>>

\* After a backward pass the layer is handed new bottoms that differ from
\* the last ones in one size: axis 1..4 of the image (the kernel blob
\* following in batch, height and width), or the kernel blob's channel count
\* (axis 5).  The top blob is the one of the earlier calls.
ResizeBlobs ==
  /\ shaped
  /\ err = "none"
  /\ lastOp = "Backward"
  /\ \E axis \in 1..5, v \in 0..MaxB :
       LET cur == <<bottom0_shape[1], bottom0_shape[2], bottom0_shape[3],
                    bottom0_shape[4], bottom1_shape[2]>>
           new == [cur EXCEPT ![axis] = v]
       IN
       /\ v <= <<MaxNum, MaxChan, MaxDim, MaxDim, MaxB>>[axis]
       /\ v >= <<1, 1, 1, 1, 0>>[axis]
       /\ v # cur[axis]
       /\ HandBottoms(new[1], new[2], new[3], new[4], new[5], 0)
       /\ UNCHANGED <<top_shape, out, top_diff>>

\* Ways the two bottom shapes can break the validator's rules:
\* <<axes of bottom[0], axes of bottom[1], batch, height, width mismatch>>.
Defects ==
  { <<3, 3, 0, 0, 0>>, <<3, 4, 0, 0, 0>>, <<4, 3, 0, 0, 0>>,
    <<5, 5, 0, 0, 0>>, <<4, 5, 0, 0, 0>>,
    <<4, 4, 1, 0, 0>>, <<4, 4, 0, 1, 0>>, <<4, 4, 0, 0, 1>>,
    <<4, 4, 0, 1, 1>>, <<4, 4, 1, 1, 1>> }

\* A 4-axis shape cut to 3 axes or extended to 5.
WithAxes(shape, a) ==
  IF a = 3 THEN SubSeq(shape, 1, 3)
  ELSE IF a = 5 THEN Append(shape, 1)
  ELSE shape

\* The caller hands a new layer the blobs of shapes s0 and s1.
HandShapes(s0, s1) ==
  /\ bottom0_shape' = s0
  /\ bottom1_shape' = s1
  /\ img' = Zeros(Count(s0, 0))
  /\ img_diff' = Zeros(Count(s0, 0))
  /\ ker' = Zeros(Count(s1, 0))
  /\ ker_diff' = Zeros(Count(s1, 0))
  /\ top_shape' = <<>>
  /\ out' = Zeros(0)
  /\ top_diff' = Zeros(0)
  /\ shaped' = FALSE
  /\ lastOp' = "PrepareBlobs"
  /\ UNCHANGED <<kind, scalars, isSetUp, err>>

\* The caller hands a new layer a malformed pair of blobs.
PrepareMalformed ==
  /\ isSetUp
  /\ err = "none"
  /\ Fresh
  /\ \E n \in 1..MaxNum, c \in 1..MaxChan, h \in 1..MaxDim, w \in 1..MaxDim,
        b \in 0..MaxB, df \in Defects :
       HandShapes(WithAxes(<<n, c, h, w>>, df[1]),
                  WithAxes(<<n + df[3], b, h + df[4], w + df[5]>>, df[2]))

\* ------------------------------------------------------------------ Reshape
\* Fault variant: the oddness CHECK is left out.
AnyKernel(kernel) == TRUE

\* CHECK_EQ(kernel % 2, 1).
OddKernel(kernel) == kernel % 2 = 1

\* Fault variant: the padding is the whole kernel extent but one.
PaddingOf_Full(kernel) == kernel - 1

\* padding_ = (kernel_ - 1) / 2, with the truncating division of C++.
PaddingOf(kernel) ==
  IF kernel >= 1 THEN (kernel - 1) \div 2 ELSE -((1 - kernel) \div 2)

\* The members after Reshape(bottom, top) and whether every CHECK passed.
\* A failing CHECK_EQ ends the call where it stands: assignments made before
\* it stay.
CPP_Reshape(b0, b1, d) ==
  IF Len(b0) # 4 THEN [ok |-> FALSE, d |-> d]
  ELSE IF Len(b0) # Len(b1) THEN [ok |-> FALSE, d |-> d]
  ELSE IF ShapeAt(b0, 0) # ShapeAt(b1, 0) THEN [ok |-> FALSE, d |-> d]
  ELSE
    LET d1 == [d EXCEPT !.batch_num = ShapeAt(b0, 0),
                        !.channels = ShapeAt(b0, 1)]
        B_input == ShapeAt(b1, 1)
        kernel == IntSqrt(B_input)
    IN
    IF kernel * kernel # B_input THEN [ok |-> FALSE, d |-> d1]
    ELSE IF ~OddKernel(kernel) THEN [ok |-> FALSE, d |-> d1]
    ELSE
      LET d2 == [d1 EXCEPT !.kernel = kernel,
                           !.padding = PaddingOf(kernel)]
      IN
      IF ShapeAt(b0, -1) # ShapeAt(b1, -1) THEN [ok |-> FALSE, d |-> d2]
      ELSE IF ShapeAt(b0, -2) # ShapeAt(b1, -2) THEN [ok |-> FALSE, d |-> d2]
      ELSE [ok |-> TRUE,
            d |-> [d2 EXCEPT !.width = ShapeAt(b0, -1),
                             !.height = ShapeAt(b0, -2)]]

SepCPP_Reshape(b0, b1, d) ==
  IF Len(b0) # 4 THEN [ok |-> FALSE, d |-> d]
  ELSE IF Len(b0) # Len(b1) THEN [ok |-> FALSE, d |-> d]
  ELSE IF ShapeAt(b0, 0) # ShapeAt(b1, 0) THEN [ok |-> FALSE, d |-> d]
  ELSE
    LET d1 == [d EXCEPT !.batch_num = ShapeAt(b0, 0),
                        !.channels = ShapeAt(b0, 1)]
        B_input == ShapeAt(b1, 1)
        kernel == B_input \div 2
    IN
    IF B_input % 2 # 0 THEN [ok |-> FALSE, d |-> d1]
    ELSE IF ~OddKernel(kernel) THEN [ok |-> FALSE, d |-> d1]
    ELSE
      LET d2 == [d1 EXCEPT !.kernel = kernel,
                           !.padding = PaddingOf(kernel)]
      IN
      IF ShapeAt(b0, -1) # ShapeAt(b1, -1) THEN [ok |-> FALSE, d |-> d2]
      ELSE IF ShapeAt(b0, -2) # ShapeAt(b1, -2) THEN [ok |-> FALSE, d |-> d2]
      ELSE [ok |-> TRUE,
            d |-> [d2 EXCEPT !.width = ShapeAt(b0, -1),
                             !.height = ShapeAt(b0, -2)]]

LayerReshape(k, b0, b1, d) ==
  IF k = "CPP" THEN CPP_Reshape(b0, b1, d) ELSE SepCPP_Reshape(b0, b1, d)

\* top[0]->ReshapeLike(*bottom[0]): a blob that already has the shape keeps
\* its memory; otherwise its data and diff are allocated anew.
Reshape ==
  LET r == LayerReshape(kind, bottom0_shape, bottom1_shape, Dims) IN
  /\ isSetUp
  /\ err = "none"
  /\ ~Fresh
  /\ kernel_' = r.d.kernel
  /\ padding_' = r.d.padding
  /\ height_' = r.d.height
  /\ width_' = r.d.width
  /\ batch_num_' = r.d.batch_num
  /\ channels_' = r.d.channels
  /\ shaped' = r.ok
  /\ err' = IF r.ok THEN "none" ELSE "ShapeError"
  /\ lastOp' = "Reshape"
  /\ IF r.ok /\ top_shape # bottom0_shape
       THEN /\ top_shape' = bottom0_shape
            /\ out' = Zeros(Count(bottom0_shape, 0))
            /\ top_diff' = Zeros(Count(bottom0_shape, 0))
       ELSE UNCHANGED <<top_shape, out, top_diff>>
  /\ UNCHANGED <<kind, isSetUp, bottom0_shape, bottom1_shape,
                 img, img_diff, ker, ker_diff>>

\* ------------------------------------------------------------ Forward_cpu
\* The strides Forward_cpu takes from the blobs.
ForwardStrides(b0, b1) ==
  [pixels_in_image |-> Count(b0, 1), pixels_in_channel |-> Count(b0, 2),
   pixels_in_kblob |-> Count(b1, 1), pixels_in_kernel |-> Count(b1, 2)]

\* The strides Backward_cpu takes from the blobs.
BackwardStrides(b0, b1) ==
  [pixels_in_image |-> Count(b0, 1), pixels_in_channel |-> Count(b0, 2),
   pixels_in_kblob |-> Count(b1, 1), pixels_in_kernel |-> Count(b0, 2)]

\* The "smart" loop shared by all four nests,
\*   for (it_ker = std::max(padding_ - pos, 0), it_img = pos - padding_ + it_ker;
\*        it_ker < kernel_ && it_img < dim; ++it_ker, ++it_img)
\* as the sequence of <<it_ker, it_img>> its body runs with.
KerStart(d, pos) == Max(d.padding - pos, 0)

\* Fault variant: the image iterator starts at the pixel itself.
ImgStart_Unshifted(d, pos) == pos

ImgStart(d, pos) == pos - d.padding + KerStart(d, pos)

\* Fault variant: the loop stops one image index early (it_img < dim - 1).
RECURSIVE SmartFrom_ShortByOne(_, _, _, _)
SmartFrom_ShortByOne(it_ker, it_img, kernel, dim) ==
  IF it_ker < kernel /\ it_img < dim - 1
  THEN <<<<it_ker, it_img>>>>
       \o SmartFrom_ShortByOne(it_ker + 1, it_img + 1, kernel, dim)
  ELSE <<>>

RECURSIVE SmartFrom(_, _, _, _)
SmartFrom(it_ker, it_img, kernel, dim) ==
  IF it_ker < kernel /\ it_img < dim
  THEN <<<<it_ker, it_img>>>> \o SmartFrom(it_ker + 1, it_img + 1, kernel, dim)
  ELSE <<>>

SmartLoop(d, pos, dim) ==
  SmartFrom(KerStart(d, pos), ImgStart(d, pos), d.kernel, dim)

\* Fault variant: the row of the neighbour is left out of the index.
ImgIndex_NoRow(cx, offset, i_img, j_img) == offset + j_img

\* Index into the image blob of neighbour (i_img, j_img) of a channel.
ImgIndex(cx, offset, i_img, j_img) == offset + i_img * cx.d.width + j_img

\* Fault variant: the batch item's offset into the kernel blob is left out.
CPP_KerIndex_Batch0(cx, n, i_ker, j_ker, pix) ==
  (i_ker * cx.d.kernel + j_ker) * cx.st.pixels_in_kernel + pix

\* Fault variant: the kernel offsets are taken column-major.
CPP_KerIndex_Transposed(cx, n, i_ker, j_ker, pix) ==
  n * cx.st.pixels_in_kblob
    + (j_ker * cx.d.kernel + i_ker) * cx.st.pixels_in_kernel + pix

\* Index into the dense kernel blob of offset (i_ker, j_ker) at a pixel.
CPP_KerIndex(cx, n, i_ker, j_ker, pix) ==
  n * cx.st.pixels_in_kblob
    + (i_ker * cx.d.kernel + j_ker) * cx.st.pixels_in_kernel + pix

\* Indices into the separable kernel blob: horizontal and vertical halves.
Sep_HorIndex(cx, n, j_ker, pix) ==
  n * cx.st.pixels_in_kblob + j_ker * cx.st.pixels_in_kernel + pix

\* Fault variant: the vertical weights are read from the horizontal half.
Sep_VerIndex_NoOffset(cx, n, i_ker, pix) ==
  n * cx.st.pixels_in_kblob + i_ker * cx.st.pixels_in_kernel + pix

Sep_VerIndex(cx, n, i_ker, pix) ==
  n * cx.st.pixels_in_kblob
    + (cx.d.kernel + i_ker) * cx.st.pixels_in_kernel + pix

\* A buffer after the stores <<index, value>> of a sequence, from the k-th
\* on, in order (a buffer without elements takes none).
RECURSIVE StoreAll(_, _, _)
StoreAll(buf, stores, k) ==
  IF DOMAIN buf = {} \/ k > Len(stores) THEN buf
  ELSE StoreAll([buf EXCEPT ![stores[k][1]] = stores[k][2]], stores, k + 1)

\* CPPLayer::Forward_cpu, inner loop over j: what it adds to v in row i.
RECURSIVE CPP_ForwardCols(_, _, _, _, _, _, _)
CPP_ForwardCols(cx, n, img_offset, pix, i, cols, k) ==
  IF k > Len(cols) THEN 0
  ELSE cx.img[ImgIndex(cx, img_offset, i[2], cols[k][2])]
         * cx.ker[CPP_KerIndex(cx, n, i[1], cols[k][1], pix)]
       + CPP_ForwardCols(cx, n, img_offset, pix, i, cols, k + 1)

\* CPPLayer::Forward_cpu, loop over i: the pixel's v.
RECURSIVE CPP_ForwardRows(_, _, _, _, _, _, _)
CPP_ForwardRows(cx, n, img_offset, pix, rows, cols, k) ==
  IF k > Len(rows) THEN 0
  ELSE CPP_ForwardCols(cx, n, img_offset, pix, rows[k], cols, 1)
       + CPP_ForwardRows(cx, n, img_offset, pix, rows, cols, k + 1)

CPP_ForwardPixel(cx, n, img_offset, pix, y, x) ==
  CPP_ForwardRows(cx, n, img_offset, pix,
                  SmartLoop(cx.d, y, cx.d.height),
                  SmartLoop(cx.d, x, cx.d.width), 1)

\* SepCPPLayer::Forward_cpu, inner loop over j: the row's temp.
RECURSIVE Sep_ForwardCols(_, _, _, _, _, _, _)
Sep_ForwardCols(cx, n, img_offset, pix, i, cols, k) ==
  IF k > Len(cols) THEN 0
  ELSE cx.img[ImgIndex(cx, img_offset, i[2], cols[k][2])]
         * cx.ker[Sep_HorIndex(cx, n, cols[k][1], pix)]
       + Sep_ForwardCols(cx, n, img_offset, pix, i, cols, k + 1)

\* SepCPPLayer::Forward_cpu, loop over i: v += temp * vertical weight.
RECURSIVE Sep_ForwardRows(_, _, _, _, _, _, _)
Sep_ForwardRows(cx, n, img_offset, pix, rows, cols, k) ==
  IF k > Len(rows) THEN 0
  ELSE Sep_ForwardCols(cx, n, img_offset, pix, rows[k], cols, 1)
         * cx.ker[Sep_VerIndex(cx, n, rows[k][1], pix)]
       + Sep_ForwardRows(cx, n, img_offset, pix, rows, cols, k + 1)

Sep_ForwardPixel(cx, n, img_offset, pix, y, x) ==
  Sep_ForwardRows(cx, n, img_offset, pix,
                  SmartLoop(cx.d, y, cx.d.height),
                  SmartLoop(cx.d, x, cx.d.width), 1)

ForwardPixel(k, cx, n, img_offset, pix, y, x) ==
  IF k = "CPP" THEN CPP_ForwardPixel(cx, n, img_offset, pix, y, x)
  ELSE Sep_ForwardPixel(cx, n, img_offset, pix, y, x)

\* Forward_cpu, loop over x: the stores of row y, pix_offset running on
\* from the row's first pixel.
RECURSIVE ForwardX(_, _, _, _, _, _, _)
ForwardX(k, cx, n, img_offset, y, x, pix_offset) ==
  IF x < cx.d.width
  THEN << <<img_offset + pix_offset,
            ForwardPixel(k, cx, n, img_offset, pix_offset, y, x)>> >>
       \o ForwardX(k, cx, n, img_offset, y, x + 1, pix_offset + 1)
  ELSE <<>>

\* Fault variant: pix_offset starts again at 0 in every row.
RECURSIVE ForwardY_RowRestart(_, _, _, _, _, _)
ForwardY_RowRestart(k, cx, n, img_offset, y, pix_offset) ==
  IF y < cx.d.height
  THEN ForwardX(k, cx, n, img_offset, y, 0, 0)
       \o ForwardY_RowRestart(k, cx, n, img_offset, y + 1, 0)
  ELSE <<>>

\* Forward_cpu, loop over y: the stores of one channel.  Every row advances
\* pix_offset by the number of its pixels.
RECURSIVE ForwardY(_, _, _, _, _, _)
ForwardY(k, cx, n, img_offset, y, pix_offset) ==
  IF y < cx.d.height
  THEN LET row == ForwardX(k, cx, n, img_offset, y, 0, pix_offset)
       IN row \o ForwardY(k, cx, n, img_offset, y + 1,
                          pix_offset + Len(row))
  ELSE <<>>

\* Forward_cpu, loop over c: the buffer after channels c.. of batch n.
RECURSIVE ForwardC(_, _, _, _, _)
ForwardC(k, cx, n, c, o) ==
  IF DOMAIN o # {} /\ c < cx.d.channels
  THEN ForwardC(k, cx, n, c + 1,
         StoreAll(o,
           ForwardY(k, cx, n,
             n * cx.st.pixels_in_image + c * cx.st.pixels_in_channel, 0, 0),
           1))
  ELSE o

\* Forward_cpu, loop over n.
RECURSIVE ForwardLoop(_, _, _, _)
ForwardLoop(k, cx, n, o) ==
  IF DOMAIN o # {} /\ n < cx.d.batch_num
  THEN ForwardLoop(k, cx, n + 1, ForwardC(k, cx, n, 0, o))
  ELSE o

\* top[0]'s data after Forward_cpu.
CPP_Forward_cpu(d, b0, b1, im, kr, o) ==
  ForwardLoop("CPP",
    [d |-> d, st |-> ForwardStrides(b0, b1), img |-> im, ker |-> kr],
    0, o)

SepCPP_Forward_cpu(d, b0, b1, im, kr, o) ==
  ForwardLoop("SepCPP",
    [d |-> d, st |-> ForwardStrides(b0, b1), img |-> im, ker |-> kr],
    0, o)

\* Layer::Forward on a CPU build: the class's Forward_cpu.
LayerForward(k, d, b0, b1, im, kr, o) ==
  IF k = "CPP" THEN CPP_Forward_cpu(d, b0, b1, im, kr, o)
  ELSE SepCPP_Forward_cpu(d, b0, b1, im, kr, o)

Forward ==
  /\ shaped
  /\ err = "none"
  /\ out' = LayerForward(kind, Dims, bottom0_shape, bottom1_shape,
                         img, ker, out)
  /\ lastOp' = "Forward"
  /\ UNCHANGED <<kind, scalars, isSetUp, shaped, shapes,
                 img, img_diff, ker, ker_diff, top_diff, err>>

\* ----------------------------------------------------------- Backward_cpu
\* The sum over channels c of src * img for one output pixel and one
\* image neighbour (the innermost loop of every Backward_cpu nest).
RECURSIVE ChannelSum(_, _, _, _, _, _, _)
ChannelSum(cx, n, y, x, i_img, j_img, c) ==
  IF c < cx.d.channels
  THEN LET offset == n * cx.st.pixels_in_image
                       + c * cx.st.pixels_in_channel
       IN cx.src[offset + y * cx.d.width + x]
            * cx.img[ImgIndex(cx, offset, i_img, j_img)]
          + ChannelSum(cx, n, y, x, i_img, j_img, c + 1)
  ELSE 0

\* CPPLayer::Backward_cpu, loop over j: the stores of row i.
RECURSIVE CPP_BackwardCols(_, _, _, _, _, _, _)
CPP_BackwardCols(cx, n, y, x, i, cols, k) ==
  IF k > Len(cols) THEN <<>>
  ELSE << <<CPP_KerIndex(cx, n, i[1], cols[k][1], y * cx.d.width + x),
            ChannelSum(cx, n, y, x, i[2], cols[k][2], 0)>> >>
       \o CPP_BackwardCols(cx, n, y, x, i, cols, k + 1)

\* CPPLayer::Backward_cpu, loop over i: the stores of one pixel, in order.
RECURSIVE CPP_BackwardRows(_, _, _, _, _, _, _)
CPP_BackwardRows(cx, n, y, x, rows, cols, k) ==
  IF k > Len(rows) THEN <<>>
  ELSE CPP_BackwardCols(cx, n, y, x, rows[k], cols, 1)
       \o CPP_BackwardRows(cx, n, y, x, rows, cols, k + 1)

CPP_BackwardStores(cx, n, y, x) ==
  CPP_BackwardRows(cx, n, y, x, SmartLoop(cx.d, y, cx.d.height),
                   SmartLoop(cx.d, x, cx.d.width), 1)

\* Fault variant: the horizontal pass forgets the vertical weights.
RECURSIVE Sep_HorInner_Unweighted(_, _, _, _, _, _, _)
Sep_HorInner_Unweighted(cx, n, y, x, j, rows, k) ==
  IF k > Len(rows) THEN 0
  ELSE ChannelSum(cx, n, y, x, rows[k][2], j[2], 0)
       + Sep_HorInner_Unweighted(cx, n, y, x, j, rows, k + 1)

\* SepCPPLayer::Backward_cpu, horizontal pass, inner loop over i: v.
RECURSIVE Sep_HorInner(_, _, _, _, _, _, _)
Sep_HorInner(cx, n, y, x, j, rows, k) ==
  IF k > Len(rows) THEN 0
  ELSE ChannelSum(cx, n, y, x, rows[k][2], j[2], 0)
         * cx.ker[Sep_VerIndex(cx, n, rows[k][1], y * cx.d.width + x)]
       + Sep_HorInner(cx, n, y, x, j, rows, k + 1)

\* SepCPPLayer::Backward_cpu, horizontal pass, loop over j: its stores.
RECURSIVE Sep_HorPass(_, _, _, _, _, _, _)
Sep_HorPass(cx, n, y, x, rows, cols, k) ==
  IF k > Len(cols) THEN <<>>
  ELSE << <<Sep_HorIndex(cx, n, cols[k][1], y * cx.d.width + x),
            Sep_HorInner(cx, n, y, x, cols[k], rows, 1)>> >>
       \o Sep_HorPass(cx, n, y, x, rows, cols, k + 1)

\* SepCPPLayer::Backward_cpu, vertical pass, inner loop over j: v.
RECURSIVE Sep_VerInner(_, _, _, _, _, _, _)
Sep_VerInner(cx, n, y, x, i, cols, k) ==
  IF k > Len(cols) THEN 0
  ELSE ChannelSum(cx, n, y, x, i[2], cols[k][2], 0)
         * cx.ker[Sep_HorIndex(cx, n, cols[k][1], y * cx.d.width + x)]
       + Sep_VerInner(cx, n, y, x, i, cols, k + 1)

\* SepCPPLayer::Backward_cpu, vertical pass, loop over i: its stores.
RECURSIVE Sep_VerPass(_, _, _, _, _, _, _)
Sep_VerPass(cx, n, y, x, rows, cols, k) ==
  IF k > Len(rows) THEN <<>>
  ELSE << <<Sep_VerIndex(cx, n, rows[k][1], y * cx.d.width + x),
            Sep_VerInner(cx, n, y, x, rows[k], cols, 1)>> >>
       \o Sep_VerPass(cx, n, y, x, rows, cols, k + 1)

\* The stores of one pixel: the horizontal pass, then the vertical pass.
Sep_BackwardStores(cx, n, y, x) ==
  Sep_HorPass(cx, n, y, x, SmartLoop(cx.d, y, cx.d.height),
              SmartLoop(cx.d, x, cx.d.width), 1)
  \o Sep_VerPass(cx, n, y, x, SmartLoop(cx.d, y, cx.d.height),
                 SmartLoop(cx.d, x, cx.d.width), 1)

BackwardStores(k, cx, n, y, x) ==
  IF k = "CPP" THEN CPP_BackwardStores(cx, n, y, x)
  ELSE Sep_BackwardStores(cx, n, y, x)

\* Backward_cpu, loops over x, y and n: the diff after the pixels from
\* (n, y, x) on.
RECURSIVE BackwardX(_, _, _, _, _, _)
BackwardX(k, cx, n, y, x, diff) ==
  IF DOMAIN diff # {} /\ x < cx.d.width
  THEN BackwardX(k, cx, n, y, x + 1,
                 StoreAll(diff, BackwardStores(k, cx, n, y, x), 1))
  ELSE diff

RECURSIVE BackwardY(_, _, _, _, _)
BackwardY(k, cx, n, y, diff) ==
  IF DOMAIN diff # {} /\ y < cx.d.height
  THEN BackwardY(k, cx, n, y + 1, BackwardX(k, cx, n, y, 0, diff))
  ELSE diff

RECURSIVE BackwardLoop(_, _, _, _)
BackwardLoop(k, cx, n, diff) ==
  IF DOMAIN diff # {} /\ n < cx.d.batch_num
  THEN BackwardLoop(k, cx, n + 1, BackwardY(k, cx, n, 0, diff))
  ELSE diff

\* Fault variant: Backward_cpu also hands the upstream gradient down to the
\* image's diff.
CPP_Backward_cpu_ImageGrad(d, b0, b1, bufs) ==
  [bufs EXCEPT !.img_diff = bufs.top_diff]

\* The blobs after Backward_cpu: only bottom[1]'s diff is written, and
\* propagate_down is not read.
CPP_Backward_cpu(d, b0, b1, bufs) ==
  [bufs EXCEPT !.ker_diff =
     BackwardLoop("CPP",
       [d |-> d, st |-> BackwardStrides(b0, b1), img |-> bufs.img,
        ker |-> bufs.ker, src |-> bufs.top_diff],
       0, bufs.ker_diff)]

SepCPP_Backward_cpu(d, b0, b1, bufs) ==
  [bufs EXCEPT !.ker_diff =
     BackwardLoop("SepCPP",
       [d |-> d, st |-> BackwardStrides(b0, b1), img |-> bufs.img,
        ker |-> bufs.ker, src |-> bufs.top_diff],
       0, bufs.ker_diff)]

\* All six buffers as one record.
Bufs == [img |-> img, img_diff |-> img_diff, ker |-> ker,
         ker_diff |-> ker_diff, out |-> out, top_diff |-> top_diff]

\* Layer::Backward on a CPU build: the class's Backward_cpu.
LayerBackward(k, d, b0, b1, bufs) ==
  IF k = "CPP" THEN CPP_Backward_cpu(d, b0, b1, bufs)
  ELSE SepCPP_Backward_cpu(d, b0, b1, bufs)

Backward ==
  LET r == LayerBackward(kind, Dims, bottom0_shape, bottom1_shape, Bufs) IN
  /\ shaped
  /\ err = "none"
  /\ img' = r.img
  /\ img_diff' = r.img_diff
  /\ ker' = r.ker
  /\ ker_diff' = r.ker_diff
  /\ out' = r.out
  /\ top_diff' = r.top_diff
  /\ lastOp' = "Backward"
  /\ UNCHANGED <<kind, scalars, isSetUp, shaped, shapes, err>>
  /\ \E propagate_down \in [1..2 -> BOOLEAN] : TRUE

\* ------------------------------------------- CPPLayer's GPU entry points
\* Fault variant: the stub returns after clearing the output.
CPP_Forward_gpu_Silent(bufs) ==
  [error |-> "none",
   bufs |-> [bufs EXCEPT !.out = [i \in DOMAIN bufs.out |-> 0]]]

\* NOT_IMPLEMENTED: a fatal log; nothing is computed.
CPP_Forward_gpu(bufs) == [error |-> "NotImplemented", bufs |-> bufs]
CPP_Backward_gpu(bufs) == [error |-> "NotImplemented", bufs |-> bufs]

GpuCall(r, op) ==
  /\ kind = "CPP"
  /\ shaped
  /\ err = "none"
  /\ img' = r.bufs.img
  /\ img_diff' = r.bufs.img_diff
  /\ ker' = r.bufs.ker
  /\ ker_diff' = r.bufs.ker_diff
  /\ out' = r.bufs.out
  /\ top_diff' = r.bufs.top_diff
  /\ err' = r.error
  /\ lastOp' = op
  /\ UNCHANGED <<kind, scalars, isSetUp, shaped, shapes>>

Forward_gpu == GpuCall(CPP_Forward_gpu(Bufs), "Forward_gpu")
Backward_gpu == GpuCall(CPP_Backward_gpu(Bufs), "Backward_gpu")

Next ==
  \/ LayerSetUp
  \/ PrepareBlobs
  \/ PrepareCentred
  \/ PrepareMalformed
  \/ ResizeBlobs
  \/ Reshape
  \/ Forward
  \/ Backward
  \/ Forward_gpu
  \/ Backward_gpu

Spec == Init /\ [][Next]_vars

\* ============================================================== properties
\* The validator's rules, stated on the shapes alone: the odd K that a
\* kernel channel count b stands for, if any.
OddRoots(k, b) ==
  { K \in 1..Max(b, 1) :
      /\ K % 2 = 1
      /\ IF k = "CPP" THEN K * K = b ELSE 2 * K = b }

ValidShapes(k, b0, b1) ==
  /\ Len(b0) = 4
  /\ Len(b1) = 4
  /\ b0[1] = b1[1]
  /\ b0[3] = b1[3]
  /\ b0[4] = b1[4]
  /\ OddRoots(k, b1[2]) # {}

\* Some element of a buffer is not zero.
NonZero(buf) == \E i \in DOMAIN buf : buf[i] # 0

\* C1: a Reshape on a rank-4 image [N,C,H,W] and a rank-4 kernel blob
\* [N,B,H,W] whose B stands for an odd K succeeds, gives the top blob the
\* image's shape and leaves the members (K, (K-1)/2, H, W, N, C) of this
\* call's shapes, whatever earlier calls left behind.
C1_ReshapeValid ==
  (lastOp = "Reshape" /\ ValidShapes(kind, bottom0_shape, bottom1_shape)) =>
    \E K \in OddRoots(kind, bottom1_shape[2]) :
      /\ err = "none"
      /\ shaped
      /\ top_shape = bottom0_shape
      /\ kernel_ = K
      /\ padding_ * 2 = K - 1
      /\ batch_num_ = bottom0_shape[1]
      /\ channels_ = bottom0_shape[2]
      /\ height_ = bottom0_shape[3]
      /\ width_ = bottom0_shape[4]

\* A successful Reshape to K = 3 on seed-0 bottoms whose top blob holds an
\* upstream gradient: the bottoms replace those of an earlier, successful
\* call with another kernel channel count.
C1_Witness ==
  /\ lastOp = "Reshape"
  /\ err = "none"
  /\ kernel_ = 3
  /\ padding_ = 1
  /\ img[0] = PatVal(0, 0)
  /\ NonZero(top_diff)
  /\ top_shape = bottom0_shape

\* C2: a Reshape on shapes that break any rule of the validator (an input
\* without exactly 4 axes, differing batch counts, heights or widths, or a
\* kernel channel count that stands for no odd K) ends in the shape error.
C2_ReshapeInvalid ==
  (lastOp = "Reshape" /\ ~ValidShapes(kind, bottom0_shape, bottom1_shape)) =>
    (err = "ShapeError" /\ ~shaped)

\* A failed Reshape of the separable layer on an empty kernel blob (B = 0)
\* of the image's batch, height and width.
C2_Witness ==
  /\ lastOp = "Reshape"
  /\ err = "ShapeError"
  /\ kind = "SepCPP"
  /\ Len(bottom0_shape) = 4
  /\ bottom1_shape = [bottom0_shape EXCEPT ![2] = 0]

\* The dense kernel blob that a separable one stands for: at every pixel,
\* channel i * K + j is vertical weight i (channel K + i) times horizontal
\* weight j (channel j).
ExpandedShape(b1) == [b1 EXCEPT ![2] = (b1[2] \div 2) * (b1[2] \div 2)]

ExpandedKernels(kr, b1) ==
  LET K == b1[2] \div 2
      hw == b1[3] * b1[4]
  IN [e \in 0..(b1[1] * K * K * hw - 1) |->
        LET n == e \div (K * K * hw)
            ch == (e % (K * K * hw)) \div hw
            pix == e % hw
        IN kr[(n * 2 * K + K + (ch \div K)) * hw + pix]
             * kr[(n * 2 * K + (ch % K)) * hw + pix]]

\* C3: after the separable layer's Forward every output element is what the
\* dense layer's Forward gives on the same image with the expanded kernel
\* blob K_dense[n, i*K+j, y, x] = K_horiz[n, j, y, x] * K_vert[n, i, y, x].
C3_SepForwardIsDense ==
  (lastOp = "Forward" /\ kind = "SepCPP") =>
    out = CPP_Forward_cpu(Dims, bottom0_shape, ExpandedShape(bottom1_shape),
                          img, ExpandedKernels(ker, bottom1_shape),
                          Zeros(Count(bottom0_shape, 0)))

\* A separable Forward with K = 3 on an image no taller than the padding.
C3_Witness ==
  /\ lastOp = "Forward"
  /\ kind = "SepCPP"
  /\ kernel_ = 3
  /\ padding_ >= height_
  /\ width_ > 1
  /\ NonZero(out)

\* The sum of the first k values of a function on 0..(k - 1).
RECURSIVE SumFn(_, _)
SumFn(f, k) == IF k = 0 THEN 0 ELSE f[k - 1] + SumFn(f, k - 1)

\* image[n, c, row, col] of a blob of shape b0, zero outside the image.
PaddedAt(im, b0, n, c, row, col) ==
  IF row \in 0..(b0[3] - 1) /\ col \in 0..(b0[4] - 1)
  THEN im[((n * b0[2] + c) * b0[3] + row) * b0[4] + col]
  ELSE 0

\* The stride-1, pad-P convolution of channel c with the K x K kernel of
\* pixel (n, y, x): the full sum over all K * K offsets.
PaddedConv(im, kr, b0, b1, K, n, c, y, x) ==
  SumFn([t \in 0..(K * K - 1) |->
           kr[((n * b1[2] + t) * b1[3] + y) * b1[4] + x]
             * PaddedAt(im, b0, n, c,
                        y - ((K - 1) \div 2) + (t \div K),
                        x - ((K - 1) \div 2) + (t % K))],
        K * K)

\* C4: after the dense layer's Forward every output element (n, c, y, x),
\* edge and corner pixels included, is the full K x K zero-padded sum of
\* kernel[n, i*K+j, y, x] * image[n, c, y-P+i, x-P+j].
C4_ForwardIsPaddedSum ==
  (lastOp = "Forward" /\ kind = "CPP") =>
    \A n \in 0..(bottom0_shape[1] - 1), c \in 0..(bottom0_shape[2] - 1),
       y \in 0..(bottom0_shape[3] - 1), x \in 0..(bottom0_shape[4] - 1) :
      out[((n * bottom0_shape[2] + c) * bottom0_shape[3] + y)
            * bottom0_shape[4] + x]
        = PaddedConv(img, ker, bottom0_shape, bottom1_shape,
                     IntSqrt(bottom1_shape[2]), n, c, y, x)

\* A dense Forward with K = 3 on a 2 x 2 image with two channels and two
\* batch items: every pixel is a corner.
C4_Witness ==
  /\ lastOp = "Forward"
  /\ kind = "CPP"
  /\ kernel_ = 3
  /\ bottom0_shape = <<2, 2, 2, 2>>
  /\ NonZero(out)

\* The sum over channels c of upstream[n, c, y, x] * image[n, c, row, col],
\* the image counting as zero outside its rows and columns.
ChannelGrad(bufs, b0, n, y, x, row, col) ==
  SumFn([c \in 0..(b0[2] - 1) |->
           bufs.top_diff[((n * b0[2] + c) * b0[3] + y) * b0[4] + x]
             * PaddedAt(bufs.img, b0, n, c, row, col)],
        b0[2])

\* The exact derivative of sum_c upstream[n,c,y,x] * output[n,c,y,x] with
\* respect to kernel element (n, ch, y, x).  Dense layer: ch = i*K + j.
\* Separable layer: ch = j < K is horizontal weight j, ch = K + i is vertical
\* weight i, and the output is sum_i K_vert[i] * sum_j K_horiz[j] * image.
ExactKernelGrad(k, bufs, b0, b1, K, n, ch, y, x) ==
  LET P == (K - 1) \div 2
      kerAt(c) == bufs.ker[((n * b1[2] + c) * b1[3] + y) * b1[4] + x]
  IN
  IF k = "CPP"
  THEN ChannelGrad(bufs, b0, n, y, x, y - P + (ch \div K), x - P + (ch % K))
  ELSE IF ch < K
  THEN SumFn([i \in 0..(K - 1) |->
                kerAt(K + i)
                  * ChannelGrad(bufs, b0, n, y, x, y - P + i, x - P + ch)],
             K)
  ELSE SumFn([j \in 0..(K - 1) |->
                kerAt(j)
                  * ChannelGrad(bufs, b0, n, y, x, y - P + (ch - K), x - P + j)],
             K)

\* C5: after Backward the kernel gradient stored at every element of the
\* kernel blob (every n, every channel, every pixel, the channels whose
\* offset points outside the image included) is the exact derivative.
C5_GradientExactEverywhere ==
  lastOp = "Backward" =>
    \A n \in 0..(bottom1_shape[1] - 1), ch \in 0..(bottom1_shape[2] - 1),
       y \in 0..(bottom1_shape[3] - 1), x \in 0..(bottom1_shape[4] - 1) :
      ker_diff[((n * bottom1_shape[2] + ch) * bottom1_shape[3] + y)
                 * bottom1_shape[4] + x]
        = ExactKernelGrad(kind, Bufs, bottom0_shape, bottom1_shape, kernel_,
                          n, ch, y, x)

\* A step of Backward.
BackwardStep == shaped /\ err = "none" /\ lastOp' = "Backward"

\* C6: the kernel gradient after Backward is a function of the upstream
\* gradient, the image, the kernel and the members only: it is what the
\* same call leaves when started from a buffer of other prior contents
\* (here: all zero).
C6_GradientIgnoresPrior ==
  [][BackwardStep =>
       ker_diff' =
         LayerBackward(kind, Dims, bottom0_shape, bottom1_shape,
                       [Bufs EXCEPT !.ker_diff = Zeros(Count(bottom1_shape, 0))]
                      ).ker_diff]_vars

\* C7: a Reshape that fails leaves the top blob's shape and all six members
\* as they were before the call.
C7_FailedReshapeChangesNothing ==
  [][(err = "none" /\ err' = "ShapeError") =>
       (scalars' = scalars /\ top_shape' = top_shape)]_vars

\* C8, as the spec states it: once LayerSetUp has run, the stored kernel
\* size is odd and at least 1 and the padding is (K - 1) / 2.
C8_KernelAlwaysOdd ==
  isSetUp => (kernel_ >= 1 /\ kernel_ % 2 = 1 /\ 2 * padding_ = kernel_ - 1)

\* C8, amended: once LayerSetUp has run, kernel size and padding are both 0
\* as long as no Reshape has passed the kernel channel checks, and from then
\* on the kernel size is odd and at least 1 and the padding is (K - 1) / 2;
\* after a successful Reshape it is the latter.
C8_KernelOddOrUnset ==
  isSetUp =>
    /\ \/ kernel_ = 0 /\ padding_ = 0
       \/ kernel_ >= 1 /\ kernel_ % 2 = 1 /\ 2 * padding_ = kernel_ - 1
    /\ shaped => kernel_ >= 1

\* A Reshape that failed on a kernel channel count before any kernel size
\* was stored.
C8_WitnessUnset ==
  /\ lastOp = "Reshape"
  /\ err = "ShapeError"
  /\ kernel_ = 0
  /\ batch_num_ > 0

\* C9: Backward writes the kernel's diff only: image data and diff, kernel
\* data, output data and upstream gradient are as before the call, for any
\* propagate_down.
C9_BackwardFrame ==
  [][BackwardStep => UNCHANGED <<img, img_diff, ker, out, top_diff>>]_vars

\* A Backward of the dense layer that stored gradients, next to an image
\* diff and an upstream gradient that hold data.
C9_Witness ==
  /\ lastOp = "Backward"
  /\ kind = "CPP"
  /\ kernel_ = 3
  /\ NonZero(ker_diff)
  /\ NonZero(img_diff)
  /\ NonZero(top_diff)

\* C10: a call of the dense layer's Forward_gpu or Backward_gpu ends in the
\* fatal unsupported-operation error and leaves every buffer as it was.
C10_GpuUnsupported ==
  [][lastOp' \in {"Forward_gpu", "Backward_gpu"} =>
       (err' = "NotImplemented" /\ buffers' = buffers)]_vars

\* A Forward_gpu call on a dense layer whose blobs hold data.
C10_Witness ==
  /\ lastOp = "Forward_gpu"
  /\ err = "NotImplemented"
  /\ NonZero(out)
  /\ NonZero(ker_diff)

\* The pairs <<it_ker, it_img>> a smart loop visits, and how many times its
\* body runs.
VisitedPairs(d, pos, dim) ==
  { SmartLoop(d, pos, dim)[k] : k \in 1..Len(SmartLoop(d, pos, dim)) }

\* The pairs with 0 <= it_ker < K, it_img = pos - P + it_ker and
\* 0 <= it_img < dim, for P = (K - 1) / 2.
InImagePairs(K, pos, dim) ==
  { <<i, pos - ((K - 1) \div 2) + i>> :
      i \in { i \in 0..(K - 1) : pos - ((K - 1) \div 2) + i \in 0..(dim - 1) } }

\* The smart loop at position pos of an axis of length dim visits exactly
\* the in-image pairs, each once.
ExactVisit(d, pos, dim) ==
  /\ VisitedPairs(d, pos, dim) = InImagePairs(d.kernel, pos, dim)
  /\ Len(SmartLoop(d, pos, dim)) = Cardinality(InImagePairs(d.kernel, pos, dim))

\* Every index the four loop nests form at pixel (n, y, x) lies inside the
\* buffer it is used on, and every kernel channel inside the kernel blob's
\* channels.
NestIndicesInside(k, d, b0, b1, bufs, n, y, x) ==
  LET cf == [d |-> d, st |-> ForwardStrides(b0, b1)]
      cb == [d |-> d, st |-> BackwardStrides(b0, b1)]
      pix == y * d.width + x
      rows == VisitedPairs(d, y, d.height)
      cols == VisitedPairs(d, x, d.width)
  IN
  /\ \A c \in 0..(d.channels - 1) :
       LET offset == n * cf.st.pixels_in_image + c * cf.st.pixels_in_channel
       IN /\ offset + pix \in DOMAIN bufs.out
          /\ offset + pix \in DOMAIN bufs.top_diff
          /\ \A i \in rows, j \in cols :
               ImgIndex(cf, offset, i[2], j[2]) \in DOMAIN bufs.img
  /\ \A i \in rows, j \in cols :
       IF k = "CPP"
       THEN /\ i[1] * d.kernel + j[1] \in 0..(b1[2] - 1)
            /\ CPP_KerIndex(cf, n, i[1], j[1], pix) \in DOMAIN bufs.ker
            /\ CPP_KerIndex(cb, n, i[1], j[1], pix) \in DOMAIN bufs.ker_diff
       ELSE /\ j[1] \in 0..(b1[2] - 1)
            /\ d.kernel + i[1] \in 0..(b1[2] - 1)
            /\ Sep_HorIndex(cf, n, j[1], pix) \in DOMAIN bufs.ker
            /\ Sep_VerIndex(cf, n, i[1], pix) \in DOMAIN bufs.ker
            /\ Sep_HorIndex(cb, n, j[1], pix) \in DOMAIN bufs.ker
            /\ Sep_VerIndex(cb, n, i[1], pix) \in DOMAIN bufs.ker
            /\ Sep_HorIndex(cb, n, j[1], pix) \in DOMAIN bufs.ker_diff
            /\ Sep_VerIndex(cb, n, i[1], pix) \in DOMAIN bufs.ker_diff

InBoundsOffsets(K, pos, dim) ==
  { i \in 0..(K - 1) : pos - ((K - 1) \div 2) + i \in 0..(dim - 1) }

\* The sum of f over a finite set of integers.
RECURSIVE SumSet(_, _)
SumSet(f, S) ==
  IF S = {} THEN 0
  ELSE LET e == CHOOSE e \in S : TRUE IN f[e] + SumSet(f, S \ {e})

\* The dense kernel gradient CPPLayer's Backward_cpu computes from the
\* image and the upstream gradient, on a kernel blob of K*K channels.
DenseGradient(d, b0, b1, bufs) ==
  CPP_Backward_cpu(d, b0, ExpandedShape(b1),
                   [bufs EXCEPT !.ker = ExpandedKernels(bufs.ker, b1),
                                !.ker_diff =
                                  Zeros(Count(ExpandedShape(b1), 0))]).ker_diff

\* C12: after the separable layer's Backward, with G the dense layer's
\* kernel gradient for the same image and upstream gradient: at every
\* (n, y, x), the gradient of horizontal weight j with column x-P+j inside
\* the image is the sum over in-bounds i of G[n, i*K+j, y, x] * K_vert[i],
\* and the gradient of vertical weight i with row y-P+i inside the image is
\* the sum over in-bounds j of G[n, i*K+j, y, x] * K_horiz[j].
C12_SepBackwardIsDense ==
  (lastOp = "Backward" /\ kind = "SepCPP") =>
    LET K == bottom1_shape[2] \div 2
        H == bottom1_shape[3]
        W == bottom1_shape[4]
        G == DenseGradient(Dims, bottom0_shape, bottom1_shape, Bufs)
    IN
    \A n \in 0..(bottom1_shape[1] - 1), y \in 0..(H - 1), x \in 0..(W - 1) :
      LET rows == InBoundsOffsets(K, y, H)
          cols == InBoundsOffsets(K, x, W)
          sepAt(ch) == ((n * 2 * K + ch) * H + y) * W + x
          g(i, j) == G[((n * K * K + i * K + j) * H + y) * W + x]
      IN
      /\ \A j \in cols :
           ker_diff[sepAt(j)]
             = SumSet([i \in rows |-> g(i, j) * ker[sepAt(K + i)]], rows)
      /\ \A i \in rows :
           ker_diff[sepAt(K + i)]
             = SumSet([j \in cols |-> g(i, j) * ker[sepAt(j)]], cols)

\* A separable Backward with K = 3 on a 2 x 2 image with two channels and
\* two batch items, from a nonzero upstream gradient, that stored a nonzero
\* gradient for the central horizontal weight of the first pixel.
C12_Witness ==
  /\ lastOp = "Backward"
  /\ kind = "SepCPP"
  /\ kernel_ = 3
  /\ bottom0_shape = <<2, 2, 2, 2>>
  /\ NonZero(top_diff)
  /\ ker_diff[4] # 0

\* The indices Forward_cpu stores to, in program order: the stores of the
\* channels c.. of batch item n, then those of the batch items after n.
RECURSIVE ForwardWritesC(_, _, _, _)
ForwardWritesC(k, cx, n, c) ==
  IF c < cx.d.channels
  THEN LET stores == ForwardY(k, cx, n,
                        n * cx.st.pixels_in_image
                          + c * cx.st.pixels_in_channel, 0, 0)
       IN [i \in 1..Len(stores) |-> stores[i][1]]
          \o ForwardWritesC(k, cx, n, c + 1)
  ELSE <<>>

RECURSIVE ForwardWritesN(_, _, _)
ForwardWritesN(k, cx, n) ==
  IF n < cx.d.batch_num
  THEN ForwardWritesC(k, cx, n, 0) \o ForwardWritesN(k, cx, n + 1)
  ELSE <<>>

ForwardWrites(k, d, b0, b1, im, kr) ==
  ForwardWritesN(k, [d |-> d, st |-> ForwardStrides(b0, b1),
                     img |-> im, ker |-> kr], 0)

\* A sequence of indices names every element of a buffer exactly once.
EachOnce(writes, buf) ==
  /\ Len(writes) = Cardinality(DOMAIN buf)
  /\ { writes[i] : i \in 1..Len(writes) } = DOMAIN buf

\* A step of Forward.
ForwardStep == shaped /\ err = "none" /\ lastOp' = "Forward"

\* C13: a Forward on validated blobs stores to every element of the output
\* exactly once and leaves image and kernel as they were; the output is what
\* the same call leaves when started from another output buffer (all zero),
\* and a second Forward on the result changes nothing.
C13_ForwardPure ==
  [][ForwardStep =>
       /\ EachOnce(ForwardWrites(kind, Dims, bottom0_shape, bottom1_shape,
                                 img, ker), out)
       /\ img' = img
       /\ ker' = ker
       /\ out' = LayerForward(kind, Dims, bottom0_shape, bottom1_shape,
                              img, ker, Zeros(Count(bottom0_shape, 0)))
       /\ LayerForward(kind, Dims, bottom0_shape, bottom1_shape,
                       img', ker', out') = out']_vars

\* A Forward with K = 3 on a 2 x 2 image with seed-1 blobs: the caller's
\* top blob held other data when Forward began.
C13_Witness ==
  /\ lastOp = "Forward"
  /\ kernel_ = 3
  /\ bottom0_shape = <<2, 2, 2, 2>>
  /\ img[0] = PatVal(1, 0)
  /\ NonZero(out)
  /\ out # Fill(6, 16)

\* C14: after the dense layer's Forward on a kernel blob of one channel
\* (K = 1, P = 0) every output element is image[n,c,y,x] * kernel[n,0,y,x];
\* with a kernel blob of ones the output is the image.
C14_PointwiseScale ==
  (lastOp = "Forward" /\ kind = "CPP" /\ bottom1_shape[2] = 1) =>
    /\ \A n \in 0..(bottom0_shape[1] - 1), c \in 0..(bottom0_shape[2] - 1),
          p \in 0..(bottom0_shape[3] * bottom0_shape[4] - 1) :
         LET e == (n * bottom0_shape[2] + c)
                    * bottom0_shape[3] * bottom0_shape[4] + p
         IN out[e]
              = img[e] * ker[n * bottom0_shape[3] * bottom0_shape[4] + p]
    /\ (\A e \in DOMAIN ker : ker[e] = 1) => out = img

\* A dense Forward with K = 1 and a kernel blob of ones on a 2 x 2 image
\* with two channels and two batch items.
C14_Witness ==
  /\ lastOp = "Forward"
  /\ kind = "CPP"
  /\ bottom0_shape = <<2, 2, 2, 2>>
  /\ bottom1_shape = <<2, 1, 2, 2>>
  /\ \A e \in DOMAIN ker : ker[e] = 1
  /\ NonZero(out)

\* C15: after the dense layer's Forward on a kernel blob that holds the
\* identity-centred kernel at every pixel (1 at channel P*K + P, 0 at every
\* other channel), for any odd K and any image size, the output is the
\* image at every element.
C15_CentredKernelIsIdentity ==
  (/\ lastOp = "Forward"
   /\ kind = "CPP"
   /\ ker = CentredKernels(bottom1_shape[1], kernel_,
                           bottom1_shape[3], bottom1_shape[4])) =>
    out = img

\* A dense Forward with the identity-centred kernel of size 5 on an image
\* one pixel high (smaller than the padding) and two pixels wide.
C15_Witness ==
  /\ lastOp = "Forward"
  /\ kind = "CPP"
  /\ kernel_ = 5
  /\ height_ < padding_
  /\ width_ = 2
  /\ ker = CentredKernels(bottom1_shape[1], 5, 1, 2)
  /\ NonZero(out)

\* A buffer with every element changed except those at the indices in keep.
AlteredExcept(buf, keep) ==
  [e \in DOMAIN buf |-> IF e \in keep THEN buf[e] ELSE 3 - buf[e]]

\* The value Forward_cpu's loops compute for output element (n, c, y, x)
\* when every image element outside channel (n, c) and every kernel element
\* outside batch item n or outside pixel (y, x) holds another value.
PixelOnOtherInputs(k, d, b0, b1, im, kr, n, c, y, x) ==
  LET hw == b0[3] * b0[4]
      inChannel == { e \in DOMAIN im : e \div hw = n * b0[2] + c }
      atPixel == { e \in DOMAIN kr : /\ e \div (b1[2] * hw) = n
                                     /\ e % hw = y * b0[4] + x }
      st == ForwardStrides(b0, b1)
  IN ForwardPixel(k,
       [d |-> d, st |-> st, img |-> AlteredExcept(im, inChannel),
        ker |-> AlteredExcept(kr, atPixel)],
       n, n * st.pixels_in_image + c * st.pixels_in_channel,
       y * b0[4] + x, y, x)

\* C16: after Forward of either layer, output element (n, c, y, x) is the
\* value the loops give when all other image channels, all other batch
\* items and the kernel at all other pixels hold different data: it depends
\* on image channel (n, c) and on the kernel of batch item n at pixel (y, x)
\* only, the same kernel elements for every channel c.
C16_ChannelBatchIndependence ==
  lastOp = "Forward" =>
    \A n \in 0..(bottom0_shape[1] - 1), c \in 0..(bottom0_shape[2] - 1),
       y \in 0..(bottom0_shape[3] - 1), x \in 0..(bottom0_shape[4] - 1) :
      out[((n * bottom0_shape[2] + c) * bottom0_shape[3] + y)
            * bottom0_shape[4] + x]
        = PixelOnOtherInputs(kind, Dims, bottom0_shape, bottom1_shape,
                             img, ker, n, c, y, x)

\* A separable Forward with K = 3 on a 2 x 2 image with two channels and
\* two batch items.
C16_Witness ==
  /\ lastOp = "Forward"
  /\ kind = "SepCPP"
  /\ kernel_ = 3
  /\ bottom0_shape = <<2, 2, 2, 2>>
  /\ NonZero(out)
  /\ NonZero(ker)

=============================================================================
